---- MODULE Spec2Model ----
(***************************************************************************)
(* simpleargs: the token classifier (arg.rs, parse.rs), the argument       *)
(* stream Args (lib.rs) and the named-option value protocol                *)
(* NamedArgument::parse / Value (lib.rs).                                   *)
(*                                                                         *)
(* A token is a sequence of bytes (numbers 0..255).  An Option<T> is a     *)
(* sequence of length 0 (None) or 1 (Some(x)).                             *)
(***************************************************************************)
EXTENDS Integers, Sequences, FiniteSets, TLC

VARIABLES
    kind,           \* the item type T::Item of the stream: "String" or "OsString"
    input,          \* the token sequence the stream was built from
    args,           \* Args::args, the tokens the iterator has not yielded yet
    allow_options,  \* Args::allow_options
    arg,            \* the Arg returned by the last call of Args::next
    live,           \* TRUE while the NamedArgument of `arg` is neither parsed nor dropped
    handler,        \* the closure the last NamedArgument::parse was called with
    got,            \* what Value::value returned to that closure's request
    out,            \* what the request (as_str / as_osstr) returned to the closure
    consumed,       \* the local `consumed` of the last NamedArgument::parse
    result,         \* the Result the last NamedArgument::parse returned
    op,             \* the last operation: "from", "next", "parse", "drop", ...
    taken,          \* the tokens the iterator has yielded so far, in order
    tok,            \* classifier runs: the token being classified
    parsed,         \* classifier runs: Option of the result of parse_arg(tok)
    prev            \* classifier runs: Option of the previous [tok, parsed]

vars == <<kind, input, args, allow_options, arg, live, handler, got, out, consumed,
          result, op, taken, tok, parsed, prev>>

----------------------------------------------------------------------------
(* Bounds *)

\* longest token given to the classifier runs
MaxTokLen == 5

\* longest input sequence given to the stream
MaxArgs == 3

----------------------------------------------------------------------------
(* Bytes *)

HYPHEN == 45
EQUALS == 61
LOWER_A == 97
UNDERSCORE == 95
NUL == 0
BYTE_FF == 255

Alphabet == {NUL, HYPHEN, EQUALS, UNDERSCORE, LOWER_A, BYTE_FF}

None == <<>>
Some(x) == <<x>>

\* bytes[from..] of a slice (0-based `from`, as in the source)
SliceFrom(s, from) == SubSeq(s, from + 1, Len(s))

\* bytes[..to] of a slice (0-based exclusive `to`)
SliceTo(s, to) == SubSeq(s, 1, to)

\* OsStr::to_str / str validity: over Alphabet the only byte that is not
\* ASCII is 0xFF, which no UTF-8 encoding contains.
IsUnicode(t) == \A i \in 1..Len(t) : t[i] < 128

Kinds == {"String", "OsString"}

\* the values of the item type
TokensOf(k, n) ==
    LET all == UNION {[1..l -> Alphabet] : l \in 0..n}
    IN  IF k = "String" THEN {t \in all : IsUnicode(t)} ELSE all

----------------------------------------------------------------------------
(* arg.rs: ParsedArg and the classifiers *)

Positional(t) == [tag |-> "Positional", arg |-> Some(t), name |-> <<>>, value |-> None]
EndOfFlags == [tag |-> "EndOfFlags", arg |-> None, name |-> <<>>, value |-> None]
Named(n, v) == [tag |-> "Named", arg |-> None, name |-> n, value |-> v]
\* Err(self): the failure of parse_arg, which carries the token
Err(t) == [tag |-> "Err", arg |-> Some(t), name |-> <<>>, value |-> None]

is_arg_name(c) ==
    \/ c \in 97..122
    \/ c \in 65..90
    \/ c \in 48..57
    \/ c = HYPHEN
    \/ c = UNDERSCORE

\* a plausible slip: the body is split at its last `=` (rfind / rposition)
FindEquals_Last(body) ==
    LET hits == {i \in 1..Len(body) : body[i] = EQUALS}
    IN  IF hits = {} THEN None
        ELSE Some((CHOOSE i \in hits : \A j \in hits : i >= j) - 1)

\* body.find('=') / body.iter().position(|&c| c == b'='): Option of the 0-based index
FindEquals(body) ==
    LET hits == {i \in 1..Len(body) : body[i] = EQUALS}
    IN  IF hits = {} THEN None
        ELSE Some((CHOOSE i \in hits : \A j \in hits : i <= j) - 1)

\* a plausible slip: an empty value after `=` is taken for no value
SplitBody_EmptyIsNone(body) ==
    LET idx == FindEquals(body)
    IN  IF idx = None \/ idx[1] + 1 = Len(body) THEN
            [name |-> IF idx = None THEN body ELSE SliceTo(body, idx[1]), value |-> None]
        ELSE [name |-> SliceTo(body, idx[1]),
              value |-> Some(SliceFrom(body, idx[1] + 1))]

\* the (name, value) split shared by the classifiers
SplitBody(body) ==
    LET idx == FindEquals(body)
    IN  IF idx = None THEN [name |-> body, value |-> None]
        ELSE [name |-> SliceTo(body, idx[1]),
              value |-> Some(SliceFrom(body, idx[1] + 1))]

\* a plausible slip: a lone `-` is not let through as a positional argument
StringParseArg_LoneHyphen(self) ==
    IF Len(self) = 0 \/ self[1] # HYPHEN THEN Positional(self)
    ELSE IF Len(self) = 2 /\ self[2] = HYPHEN THEN EndOfFlags
    ELSE LET body == IF Len(self) >= 2 /\ self[2] = HYPHEN THEN SliceFrom(self, 2)
                     ELSE SliceFrom(self, 1)
             nv == SplitBody(body)
         IN  IF Len(nv.name) = 0 \/ ~(\A i \in 1..Len(nv.name) : is_arg_name(nv.name[i]))
             THEN Err(self)
             ELSE Named(nv.name, nv.value)

\* impl ArgString for String
StringParseArg(self) ==
    IF Len(self) = 0 \/ self[1] # HYPHEN THEN Positional(self)
    ELSE IF Len(self) = 1 THEN Positional(self)
    ELSE IF self[2] = HYPHEN /\ Len(self) = 2 THEN EndOfFlags
    ELSE LET body == IF self[2] = HYPHEN THEN SliceFrom(self, 2) ELSE SliceFrom(self, 1)
             nv == SplitBody(body)
         IN  IF Len(nv.name) = 0 \/ ~(\A i \in 1..Len(nv.name) : is_arg_name(nv.name[i]))
             THEN Err(self)
             ELSE Named(nv.name, nv.value)

\* a plausible slip: of two leading hyphens only one is stripped
OsStringParseArg_OneHyphen(self) ==
    IF Len(self) < 2 \/ self[1] # HYPHEN THEN Positional(self)
    ELSE IF self[2] = HYPHEN /\ Len(self) = 2 THEN EndOfFlags
    ELSE LET body == SliceFrom(self, 1)
             nv == SplitBody(body)
         IN  IF \/ Len(nv.name) = 0
                \/ nv.name[1] = HYPHEN
                \/ nv.name[Len(nv.name)] = HYPHEN
                \/ ~(\A i \in 1..Len(nv.name) : is_arg_name(nv.name[i]))
             THEN Err(self)
             ELSE Named(nv.name, nv.value)

\* impl ArgString for OsString
OsStringParseArg(self) ==
    IF Len(self) < 2 \/ self[1] # HYPHEN THEN Positional(self)
    ELSE IF self[2] = HYPHEN /\ Len(self) = 2 THEN EndOfFlags
    ELSE LET body == IF self[2] # HYPHEN THEN SliceFrom(self, 1) ELSE SliceFrom(self, 2)
             nv == SplitBody(body)
         IN  IF \/ Len(nv.name) = 0
                \/ nv.name[1] = HYPHEN
                \/ nv.name[Len(nv.name)] = HYPHEN
                \/ ~(\A i \in 1..Len(nv.name) : is_arg_name(nv.name[i]))
             THEN Err(self)
             ELSE Named(nv.name, nv.value)

\* ArgString::parse_arg, dispatched on the item type
parse_arg(k, self) ==
    IF k = "String" THEN StringParseArg(self) ELSE OsStringParseArg(self)

\* ArgString::to_str: Option of the token as a str
to_str(k, t) ==
    IF k = "String" THEN Some(t)
    ELSE IF IsUnicode(t) THEN Some(t) ELSE None

----------------------------------------------------------------------------
(* lib.rs: Arg, Args::next *)

NoArg == [tag |-> "None", arg |-> None, name |-> <<>>, data |-> None]
ArgPositional(t) == [tag |-> "Positional", arg |-> Some(t), name |-> <<>>, data |-> None]
ArgNamed(n, d) == [tag |-> "Named", arg |-> None, name |-> n, data |-> d]
ArgEnd == [tag |-> "End", arg |-> None, name |-> <<>>, data |-> None]
\* Arg::Error(UsageError::InvalidArgument { arg })
ArgError(t) == [tag |-> "Error", arg |-> Some(t), name |-> <<>>, data |-> None]

\* a plausible slip: a token popped with options disabled enables them again
ArgsNextDisabled_Reenables(a) ==
    [args |-> Tail(a), allow_options |-> TRUE, arg |-> ArgPositional(Head(a)),
     yielded |-> <<Head(a)>>]

\* a plausible slip: with options disabled the token is read but not popped
ArgsNextDisabled_Peeks(a) ==
    [args |-> a, allow_options |-> FALSE, arg |-> ArgPositional(Head(a)),
     yielded |-> <<>>]

\* Args::next, the early return `if !self.allow_options`: the token popped
\* from a (non-empty) is emitted as it is
ArgsNextDisabled(a) ==
    [args |-> Tail(a), allow_options |-> FALSE, arg |-> ArgPositional(Head(a)),
     yielded |-> <<Head(a)>>]

\* a plausible slip: the marker itself is emitted as a positional argument
ArgsNextEndOfFlags_EmitsMarker(a) ==
    [args |-> Tail(a), allow_options |-> FALSE, arg |-> ArgPositional(Head(a)),
     yielded |-> <<Head(a)>>]

\* a plausible slip: End is emitted after the marker without looking for a
\* token behind it
ArgsNextEndOfFlags_EndAtMarker(a) ==
    [args |-> Tail(a), allow_options |-> FALSE, arg |-> ArgEnd, yielded |-> <<Head(a)>>]

\* a plausible slip: the token behind the marker is emitted but left in the
\* iterator
ArgsNextEndOfFlags_Replays(a) ==
    IF Tail(a) = <<>> THEN
        [args |-> Tail(a), allow_options |-> FALSE, arg |-> ArgEnd,
         yielded |-> <<Head(a)>>]
    ELSE
        [args |-> Tail(a), allow_options |-> FALSE,
         arg |-> ArgPositional(Head(Tail(a))),
         yielded |-> <<Head(a)>>]

\* Args::next, the arm ParsedArg::EndOfFlags: Head(a) is the marker just popped
ArgsNextEndOfFlags(a) ==
    IF Tail(a) = <<>> THEN
        [args |-> Tail(a), allow_options |-> FALSE, arg |-> ArgEnd,
         yielded |-> <<Head(a)>>]
    ELSE
        [args |-> Tail(Tail(a)), allow_options |-> FALSE,
         arg |-> ArgPositional(Head(Tail(a))),
         yielded |-> <<Head(a), Head(Tail(a))>>]

\* a plausible slip: a syntax error ends option parsing
ArgsNext_ErrorDisables(k, a, allow) ==
    IF a = <<>> THEN
        [args |-> a, allow_options |-> allow, arg |-> ArgEnd, yielded |-> <<>>]
    ELSE IF ~allow THEN ArgsNextDisabled(a)
    ELSE LET p == parse_arg(k, Head(a))
         IN  CASE p.tag = "Err" ->
                    [args |-> Tail(a), allow_options |-> FALSE,
                     arg |-> ArgError(p.arg[1]), yielded |-> <<Head(a)>>]
               [] p.tag = "Positional" ->
                    [args |-> Tail(a), allow_options |-> allow,
                     arg |-> ArgPositional(p.arg[1]), yielded |-> <<Head(a)>>]
               [] p.tag = "EndOfFlags" -> ArgsNextEndOfFlags(a)
               [] p.tag = "Named" ->
                    [args |-> Tail(a), allow_options |-> allow,
                     arg |-> ArgNamed(p.name, p.value), yielded |-> <<Head(a)>>]

\* Args::next on the stream (a, allow): the stream afterwards, the Arg
\* returned and the tokens the iterator yielded during the call
ArgsNext(k, a, allow) ==
    IF a = <<>> THEN
        [args |-> a, allow_options |-> allow, arg |-> ArgEnd, yielded |-> <<>>]
    ELSE IF ~allow THEN ArgsNextDisabled(a)
    ELSE LET p == parse_arg(k, Head(a))
         IN  CASE p.tag = "Err" ->
                    [args |-> Tail(a), allow_options |-> allow,
                     arg |-> ArgError(p.arg[1]), yielded |-> <<Head(a)>>]
               [] p.tag = "Positional" ->
                    [args |-> Tail(a), allow_options |-> allow,
                     arg |-> ArgPositional(p.arg[1]), yielded |-> <<Head(a)>>]
               [] p.tag = "EndOfFlags" -> ArgsNextEndOfFlags(a)
               [] p.tag = "Named" ->
                    [args |-> Tail(a), allow_options |-> allow,
                     arg |-> ArgNamed(p.name, p.value), yielded |-> <<Head(a)>>]

----------------------------------------------------------------------------
(* lib.rs: Value and NamedArgument::parse *)

\* what a value request returned
NotRequested == [tag |-> "NotRequested", val |-> None]
GotOk(t) == [tag |-> "Ok", val |-> Some(t)]
GotErr(e) == [tag |-> e, val |-> None]

\* a plausible slip: the next token is read but left in the iterator
value_Peeks(data, a) ==
    IF data # None THEN
        [consumed |-> TRUE, data |-> data, args |-> a, res |-> GotOk(data[1])]
    ELSE IF a # <<>> THEN
        [consumed |-> TRUE, data |-> Some(Head(a)), args |-> a, res |-> GotOk(Head(a))]
    ELSE
        [consumed |-> TRUE, data |-> data, args |-> a, res |-> GotErr("MissingParameter")]

\* a plausible slip: the pulled token is returned but not kept in the slot
value_NotKept(data, a) ==
    IF data # None THEN
        [consumed |-> TRUE, data |-> data, args |-> a, res |-> GotOk(data[1])]
    ELSE IF a # <<>> THEN
        [consumed |-> TRUE, data |-> None, args |-> Tail(a), res |-> GotOk(Head(a))]
    ELSE
        [consumed |-> TRUE, data |-> data, args |-> a, res |-> GotErr("MissingParameter")]

\* Value::value on the slot `data` and the iterator `a`
value(data, a) ==
    IF data # None THEN
        [consumed |-> TRUE, data |-> data, args |-> a, res |-> GotOk(data[1])]
    ELSE IF a # <<>> THEN
        [consumed |-> TRUE, data |-> Some(Head(a)), args |-> Tail(a),
         res |-> GotOk(Head(a))]
    ELSE
        [consumed |-> TRUE, data |-> data, args |-> a, res |-> GotErr("MissingParameter")]

\* a plausible slip: the value is handed out without the Unicode check
as_str_Unchecked(k, data, a) ==
    LET v == value(data, a)
    IN  [v |-> v, out |-> v.res]

\* Value::as_str: the effects of value() and the Result of the request
as_str(k, data, a) ==
    LET v == value(data, a)
    IN  [v |-> v,
         out |-> IF v.res.tag # "Ok" THEN v.res
                 ELSE IF to_str(k, v.res.val[1]) # None THEN v.res
                 ELSE GotErr("InvalidUnicode")]

\* Value::as_osstr
as_osstr(k, data, a) ==
    LET v == value(data, a)
    IN  [v |-> v, out |-> v.res]

OptionErrors == {"Unknown", "MissingParameter", "UnexpectedParameter",
                 "InvalidUnicode", "InvalidValue"}

\* The closures f that NamedArgument::parse can be called with, by what they
\* do with the Value they are given: which request they make (at most one,
\* Value is consumed by it), whether they return the request's error (the `?`
\* of the examples) or go on, and what they return when they go on.
Handlers ==
    [req : {"none"}, onfail : {"ignore"}, then : {"Ok"} \cup OptionErrors]
    \cup [req : {"as_str", "as_osstr"},
          onfail : {"propagate", "ignore"},
          then : {"Ok"} \cup OptionErrors]

\* no closure: parse has not been called on the current Arg
NoHandler == [req |-> "none", onfail |-> "ignore", then |-> "None"]

\* the call f(&name, Value { data, args, consumed })
CallHandler(k, h, data, a) ==
    LET r == CASE h.req = "as_str" -> as_str(k, data, a)
               [] h.req = "as_osstr" -> as_osstr(k, data, a)
               [] OTHER -> [v |-> [consumed |-> FALSE, data |-> data, args |-> a,
                                   res |-> NotRequested],
                            out |-> NotRequested]
        failed == r.out.tag \notin {"NotRequested", "Ok"}
    IN  [consumed |-> r.v.consumed, data |-> r.v.data, args |-> r.v.args,
         got |-> r.v.res, out |-> r.out,
         ret |-> IF failed /\ h.onfail = "propagate" THEN r.out.tag ELSE h.then]

NoResult == [tag |-> "None", name |-> <<>>, value |-> None, err |-> "None"]
ResultOk == [tag |-> "Ok", name |-> <<>>, value |-> None, err |-> "None"]
\* Err(UsageError::InvalidOption { name, value, err })
InvalidOption(n, v, e) == [tag |-> "InvalidOption", name |-> n, value |-> v, err |-> e]

\* <UsageError<T> as Display>::fmt on an InvalidOption: the two arms that
\* print the value unwrap it, and panic if it is None
DisplayFmt(r) ==
    IF r.err \in {"InvalidUnicode", "InvalidValue"} /\ r.value = None THEN "panic"
    ELSE "written"

\* a plausible slip: an unused inline value is not reported
NamedArgumentParse_NoUnexpected(k, name, data, a, h) ==
    LET c == CallHandler(k, h, data, a)
    IN  [args |-> c.args, got |-> c.got, out |-> c.out, consumed |-> c.consumed,
         result |-> IF c.ret = "Ok" THEN ResultOk ELSE InvalidOption(name, c.data, c.ret)]

\* a plausible slip: the error carries the value the handle started with
NamedArgumentParse_InlineOnly(k, name, data, a, h) ==
    LET c == CallHandler(k, h, data, a)
        err == IF c.ret # "Ok" THEN c.ret
               ELSE IF c.consumed \/ c.data = None THEN "Ok"
               ELSE "UnexpectedParameter"
    IN  [args |-> c.args, got |-> c.got, out |-> c.out, consumed |-> c.consumed,
         result |-> IF err = "Ok" THEN ResultOk ELSE InvalidOption(name, data, err)]

\* a plausible slip: an unused inline value is reported before the handler's error
NamedArgumentParse_UnexpectedFirst(k, name, data, a, h) ==
    LET c == CallHandler(k, h, data, a)
        err == IF ~c.consumed /\ c.data # None THEN "UnexpectedParameter"
               ELSE c.ret
    IN  [args |-> c.args, got |-> c.got, out |-> c.out, consumed |-> c.consumed,
         result |-> IF err = "Ok" THEN ResultOk ELSE InvalidOption(name, c.data, err)]

\* NamedArgument::parse(self, f) for the handle (name, data) on the iterator a
NamedArgumentParse(k, name, data, a, h) ==
    LET c == CallHandler(k, h, data, a)
        err == IF c.ret # "Ok" THEN c.ret
               ELSE IF c.consumed \/ c.data = None THEN "Ok"
               ELSE "UnexpectedParameter"
    IN  [args |-> c.args, got |-> c.got, out |-> c.out, consumed |-> c.consumed,
         result |-> IF err = "Ok" THEN ResultOk ELSE InvalidOption(name, c.data, err)]

----------------------------------------------------------------------------
(* The stream and its caller *)

\* Representative tokens for the stream: one or more of each shape the
\* classifier and the value protocol distinguish.
TokenPool ==
    { <<LOWER_A>>,                                  \* a
      <<HYPHEN>>,                                   \* -
      <<HYPHEN, HYPHEN>>,                           \* --
      <<HYPHEN, LOWER_A>>,                          \* -a
      <<HYPHEN, HYPHEN, LOWER_A>>,                  \* --a
      <<HYPHEN, LOWER_A, EQUALS>>,                  \* -a=
      <<HYPHEN, HYPHEN, LOWER_A, EQUALS, LOWER_A>>, \* --a=a
      <<HYPHEN, EQUALS>>,                           \* -=
      <<HYPHEN, HYPHEN, LOWER_A, HYPHEN>>,          \* --a-
      <<HYPHEN, UNDERSCORE, EQUALS, BYTE_FF>>,      \* -_=\xff
      <<BYTE_FF>> }                                 \* \xff

PoolOf(k) == IF k = "String" THEN {t \in TokenPool : IsUnicode(t)} ELSE TokenPool

\* Args::from(args)
Init ==
    /\ kind \in Kinds
    /\ input \in UNION {[1..n -> PoolOf(kind)] : n \in 0..MaxArgs}
    /\ args = input
    /\ allow_options = TRUE
    /\ arg = NoArg
    /\ live = FALSE
    /\ handler = NoHandler
    /\ got = NotRequested
    /\ out = NotRequested
    /\ consumed = FALSE
    /\ result = NoResult
    /\ op = "from"
    /\ taken = <<>>
    /\ tok = <<>>
    /\ parsed = None
    /\ prev = None

\* the caller calls args.next(); the borrow of a live NamedArgument forbids it
Next_ ==
    /\ ~live
    /\ LET r == ArgsNext(kind, args, allow_options)
       IN  /\ args' = r.args
           /\ allow_options' = r.allow_options
           /\ arg' = r.arg
           /\ live' = (r.arg.tag = "Named")
           /\ taken' = taken \o r.yielded
    /\ got' = NotRequested
    /\ out' = NotRequested
    /\ consumed' = FALSE
    /\ result' = NoResult
    /\ handler' = NoHandler
    /\ op' = "next"
    /\ UNCHANGED <<kind, input, tok, parsed, prev>>

\* a plausible slip: the value is pulled through Args::next, so that a
\* pulled `--` switches option parsing off
Parse_PullClassifies ==
    /\ live
    /\ \E h \in Handlers :
        LET r == NamedArgumentParse(kind, arg.name, arg.data, args, h)
        IN  /\ handler' = h
            /\ args' = r.args
            /\ got' = r.got
            /\ out' = r.out
            /\ consumed' = r.consumed
            /\ result' = r.result
            /\ taken' = taken \o SubSeq(args, 1, Len(args) - Len(r.args))
            /\ allow_options' =
                  IF r.args # args /\ Head(args) = <<HYPHEN, HYPHEN>> THEN FALSE
                  ELSE allow_options
    /\ live' = FALSE
    /\ op' = "parse"
    /\ UNCHANGED <<kind, input, arg, tok, parsed, prev>>

\* the caller calls arg.parse(f) on the NamedArgument it was given
Parse ==
    /\ live
    /\ \E h \in Handlers :
        LET r == NamedArgumentParse(kind, arg.name, arg.data, args, h)
        IN  /\ handler' = h
            /\ args' = r.args
            /\ got' = r.got
            /\ out' = r.out
            /\ consumed' = r.consumed
            /\ result' = r.result
            /\ taken' = taken \o SubSeq(args, 1, Len(args) - Len(r.args))
    /\ live' = FALSE
    /\ op' = "parse"
    /\ UNCHANGED <<kind, input, allow_options, arg, tok, parsed, prev>>

\* the caller drops the NamedArgument without calling parse
Drop ==
    /\ live
    /\ live' = FALSE
    /\ op' = "drop"
    /\ UNCHANGED <<kind, input, args, allow_options, arg, handler, got, out, consumed,
                   result, taken, tok, parsed, prev>>

Next == Next_ \/ Parse \/ Drop

Spec == Init /\ [][Next]_vars

----------------------------------------------------------------------------
(* The caller as a loop (test::parse_args) *)

\* the shapes of token the loop can meet: a positional argument, the marker,
\* an option without and with an inline value, an invalid token
LoopPool ==
    { <<LOWER_A>>,                                  \* a
      <<HYPHEN, HYPHEN>>,                           \* --
      <<HYPHEN, LOWER_A>>,                          \* -a
      <<HYPHEN, HYPHEN, LOWER_A, EQUALS, LOWER_A>>, \* --a=a
      <<HYPHEN, EQUALS>> }                          \* -=

\* Args::from(args) on such tokens
LoopInit ==
    /\ Init
    /\ \A i \in 1..Len(input) : input[i] \in LoopPool

\* one turn of the loop: args.next(), and for Arg::Named, option.parse(..)
LoopNext == Next_ \/ Parse

\* the loop goes on: it calls next again after every event but a Named one,
\* which it parses first.  test::parse_args leaves the loop at the first
\* error; here the caller goes on past errors too, which only adds runs.
SpecLoop == LoopInit /\ [][LoopNext]_vars /\ WF_vars(Next_) /\ WF_vars(Parse)

----------------------------------------------------------------------------
(* The classifier on its own: every token up to MaxTokLen bytes, then the  *)
(* same token with one more leading hyphen.                                *)

ClassifyInit ==
    /\ kind \in Kinds
    /\ tok \in TokensOf(kind, MaxTokLen)
    /\ parsed = None
    /\ prev = None
    /\ input = <<>>
    /\ args = <<>>
    /\ allow_options = TRUE
    /\ arg = NoArg
    /\ live = FALSE
    /\ handler = NoHandler
    /\ got = NotRequested
    /\ out = NotRequested
    /\ consumed = FALSE
    /\ result = NoResult
    /\ op = "from"
    /\ taken = <<>>

\* tok.parse_arg()
Classify ==
    /\ parsed = None
    /\ parsed' = Some(parse_arg(kind, tok))
    /\ op' = "parse_arg"
    /\ UNCHANGED <<kind, input, args, allow_options, arg, live, handler, got, out,
                   consumed, result, taken, tok, prev>>

\* the next case: the token just classified, with one more leading hyphen
AddHyphen ==
    /\ parsed # None
    /\ prev = None
    /\ prev' = Some([tok |-> tok, parsed |-> parsed[1]])
    /\ tok' = <<HYPHEN>> \o tok
    /\ parsed' = None
    /\ op' = "case"
    /\ UNCHANGED <<kind, input, args, allow_options, arg, live, handler, got, out,
                   consumed, result, taken>>

ClassifyNext == Classify \/ AddHyphen

SpecClassify == ClassifyInit /\ [][ClassifyNext]_vars

----------------------------------------------------------------------------
(* parse.rs: the stand-alone classifier, run beside the OsString one *)

\* Err(UsageError::InvalidArgument { arg }) of parse::parse_arg
InvalidArgument(t) ==
    [tag |-> "InvalidArgument", arg |-> Some(t), name |-> <<>>, value |-> None]

\* parse.rs is_arg_name
parse_is_arg_name(c) ==
    \/ c \in 97..122
    \/ c \in 65..90
    \/ c \in 48..57
    \/ c = HYPHEN
    \/ c = UNDERSCORE

\* a plausible slip: the older classifier lets a name end with a hyphen
ParseRsParseArg_TrailingHyphen(self) ==
    IF Len(self) < 2 \/ self[1] # HYPHEN THEN Positional(self)
    ELSE IF self[2] = HYPHEN /\ Len(self) = 2 THEN EndOfFlags
    ELSE LET body == IF self[2] # HYPHEN THEN SliceFrom(self, 1) ELSE SliceFrom(self, 2)
             idx == FindEquals(body)
             name == IF idx = None THEN body ELSE SliceTo(body, idx[1])
             val == IF idx = None THEN None ELSE Some(SliceFrom(body, idx[1] + 1))
         IN  IF \/ Len(name) = 0
                \/ name[1] = HYPHEN
                \/ ~(\A i \in 1..Len(name) : parse_is_arg_name(name[i]))
             THEN InvalidArgument(self)
             ELSE Named(name, val)

\* parse::parse_arg
ParseRsParseArg(self) ==
    IF Len(self) < 2 \/ self[1] # HYPHEN THEN Positional(self)
    ELSE IF self[2] = HYPHEN /\ Len(self) = 2 THEN EndOfFlags
    ELSE LET body == IF self[2] # HYPHEN THEN SliceFrom(self, 1) ELSE SliceFrom(self, 2)
             idx == FindEquals(body)
             name == IF idx = None THEN body ELSE SliceTo(body, idx[1])
             val == IF idx = None THEN None ELSE Some(SliceFrom(body, idx[1] + 1))
         IN  IF \/ Len(name) = 0
                \/ name[1] = HYPHEN
                \/ name[Len(name)] = HYPHEN
                \/ ~(\A i \in 1..Len(name) : parse_is_arg_name(name[i]))
             THEN InvalidArgument(self)
             ELSE Named(name, val)

\* every byte-string token up to MaxTokLen bytes
BothInit ==
    /\ ClassifyInit
    /\ kind = "OsString"

\* parse::parse_arg(tok); its result is kept in prev
ClassifyOld ==
    /\ prev = None
    /\ prev' = Some([tok |-> tok, parsed |-> ParseRsParseArg(tok)])
    /\ op' = "parse::parse_arg"
    /\ UNCHANGED <<kind, input, args, allow_options, arg, live, handler, got, out,
                   consumed, result, taken, tok, parsed>>

BothNext == Classify \/ ClassifyOld

SpecBoth == BothInit /\ [][BothNext]_vars

TypeOK ==
    /\ kind \in Kinds
    /\ allow_options \in BOOLEAN
    /\ live \in BOOLEAN
    /\ taken \o args = input

----------------------------------------------------------------------------
(* Properties of the value protocol and the stream *)

\* the end-of-options marker
DashDash == <<HYPHEN, HYPHEN>>

\* a step of NamedArgument::parse whose closure requests the value
RequestStep == op' = "parse" /\ handler'.req # "none"

\* C1: when a Named option has no inline value and its handler requests the
\* value: with a remaining token, exactly the next token is removed from the
\* stream and returned by Value::value, whatever its shape, and it is not
\* classified (the mode and the current Arg stay as they were); with the
\* stream exhausted the request fails with MissingParameter, nothing is
\* removed, and a handler that returns that failure makes parse return
\* InvalidOption naming the option with the value absent.
C1_PullsNextToken ==
    [][(RequestStep /\ arg.data = None) =>
        /\ args # <<>> =>
            /\ args' = Tail(args)
            /\ got' = GotOk(Head(args))
            /\ allow_options' = allow_options
            /\ arg' = arg
        /\ args = <<>> =>
            /\ args' = args
            /\ got' = GotErr("MissingParameter")
            /\ out' = GotErr("MissingParameter")
            /\ result'.tag = "InvalidOption" =>
                  result'.name = arg.name /\ result'.value = None
            /\ handler'.onfail = "propagate" =>
                  result' = InvalidOption(arg.name, None, "MissingParameter")]_vars

\* C1 happens: `-a --` with a handler that requests the value was given `--`
\* as the value, and options are still enabled.
C1_Witness ==
    /\ op = "parse"
    /\ handler.req # "none"
    /\ arg.data = None
    /\ got = GotOk(DashDash)
    /\ allow_options
    /\ Len(taken) = 2

\* C2: when a Named option carries an inline value and its handler requests
\* the value, the inline value is returned and no token is removed; `-a=`,
\* `-a` and `--a=a` are emitted as three different Named events, and the
\* value of `-a=` is exactly the empty string.
C2_InlineValue ==
    [][/\ (RequestStep /\ arg.data # None) =>
            /\ got' = GotOk(arg.data[1])
            /\ args' = args
       /\ (op' = "next" /\ allow_options /\ args # <<>>) =>
            /\ Head(args) = <<HYPHEN, LOWER_A, EQUALS>> =>
                  arg' = ArgNamed(<<LOWER_A>>, Some(<<>>))
            /\ Head(args) = <<HYPHEN, LOWER_A>> =>
                  arg' = ArgNamed(<<LOWER_A>>, None)
            /\ Head(args) = <<HYPHEN, HYPHEN, LOWER_A, EQUALS, LOWER_A>> =>
                  arg' = ArgNamed(<<LOWER_A>>, Some(<<LOWER_A>>))
       /\ (RequestStep /\ arg = ArgNamed(<<LOWER_A>>, Some(<<>>))) =>
            /\ got' = GotOk(<<>>)
            /\ args' = args]_vars

\* C2 happens: the value of `-a=` was requested while a token was waiting in
\* the stream, and the empty string came back.
C2_Witness ==
    /\ op = "parse"
    /\ handler.req # "none"
    /\ arg = ArgNamed(<<LOWER_A>>, Some(<<>>))
    /\ got = GotOk(<<>>)
    /\ args # <<>>

\* C3: a handler that succeeds without requesting the value: parse succeeds
\* iff there was no inline value, and fails with UnexpectedParameter naming
\* the option otherwise; no token is removed and options_enabled is unchanged.
C3_NoValuePath ==
    [][(op' = "parse" /\ handler'.req = "none" /\ handler'.then = "Ok") =>
        /\ (result' = ResultOk) <=> (arg.data = None)
        /\ arg.data # None =>
              /\ result'.tag = "InvalidOption"
              /\ result'.err = "UnexpectedParameter"
              /\ result'.name = arg.name
        /\ args' = args
        /\ allow_options' = allow_options]_vars

\* C3 happens: `--a=a` went to a handler that takes no value, with a token
\* waiting in the stream.
C3_Witness ==
    /\ op = "parse"
    /\ handler.req = "none"
    /\ handler.then = "Ok"
    /\ arg.data # None
    /\ result.err = "UnexpectedParameter"
    /\ args # <<>>

\* C4: resolving a Named event removes at most one token, and only by a
\* request on an option without inline value; the value obtained is the one
\* the handle keeps (it is the value of the error parse returns), and a
\* pulled token is gone from the stream: it is the last token taken and the
\* stream goes on after it.
C4_OneShot ==
    [][op' = "parse" =>
        /\ args' = args \/ args' = Tail(args)
        /\ args' # args => handler'.req # "none" /\ arg.data = None /\ args # <<>>
        /\ got'.tag = "Ok" =>
              /\ result'.tag = "InvalidOption" => result'.value = got'.val
              /\ arg.data # None => args' = args
              /\ arg.data = None =>
                    /\ args' = Tail(args)
                    /\ taken' = Append(taken, got'.val[1])
        /\ taken' \o args' = input]_vars

\* C4 happens: a value was pulled, the handler failed on it, and the error
\* carries the pulled token while the stream still has tokens.
C4_Witness ==
    /\ op = "parse"
    /\ arg.data = None
    /\ got.tag = "Ok"
    /\ result.tag = "InvalidOption"
    /\ result.value = got.val
    /\ args # <<>>

\* C5: options_enabled starts true, never becomes true again once false, and
\* becomes false only in a call of next that pops `--` while it is true.
C5_AllowOptionsMonotone ==
    /\ allow_options = TRUE
    /\ [][/\ ~allow_options => ~allow_options'
          /\ (allow_options /\ ~allow_options') =>
                op' = "next" /\ args # <<>> /\ Head(args) = DashDash]_vars

\* C5 happens: after the marker, a second `--` was emitted and options are
\* still disabled.
C5_Witness ==
    /\ ~allow_options
    /\ op = "next"
    /\ arg = ArgPositional(DashDash)
    /\ Len(taken) >= 3

\* C6: the first `--` that next pops while options are enabled is not
\* emitted: the same call disables options and emits the token after it as
\* Positional, or End if there is none; every token popped after that is
\* emitted as Positional, unchanged, whatever its shape.
C6_EndOfOptions ==
    [][op' = "next" =>
        /\ (allow_options /\ args # <<>> /\ Head(args) = DashDash) =>
              /\ ~allow_options'
              /\ Len(args) >= 2 =>
                    arg' = ArgPositional(args[2]) /\ args' = SubSeq(args, 3, Len(args))
              /\ Len(args) = 1 => arg' = ArgEnd /\ args' = <<>>
        /\ (~allow_options /\ args # <<>>) =>
              arg' = ArgPositional(Head(args)) /\ args' = Tail(args)
        /\ ~allow_options' => arg'.tag \in {"Positional", "End"}]_vars

\* C6 happens: with the marker behind, the invalid option `-=` was emitted as
\* a positional argument.
C6_Witness ==
    /\ ~allow_options
    /\ op = "next"
    /\ arg = ArgPositional(<<HYPHEN, EQUALS>>)
    /\ Len(taken) >= 3

\* C11: End is absorbing: a call of next made after End was emitted emits
\* End again, and End is emitted only with the stream empty, either found
\* empty by the call or emptied by popping the marker as the last token.
C11_EndAbsorbing ==
    [][op' = "next" =>
        /\ arg.tag = "End" => arg' = ArgEnd /\ args' = <<>>
        /\ arg'.tag = "End" =>
              /\ args' = <<>>
              /\ \/ args = <<>>
                 \/ allow_options /\ args = <<DashDash>>]_vars

\* C11 happens: End came from popping the marker as the last of three tokens.
C11_Witness ==
    /\ op = "next"
    /\ arg = ArgEnd
    /\ ~allow_options
    /\ Len(taken) = 3
    /\ taken[3] = DashDash

\* C12: a call of next that emits Error popped one token with options
\* enabled, carries exactly that token, leaves options enabled and the
\* tokens behind it in place, and `-=` is such a token; the stream is free
\* for the next call.
C12_InvalidArgument ==
    [][op' = "next" =>
        /\ arg'.tag = "Error" =>
              /\ args # <<>>
              /\ arg' = ArgError(Head(args))
              /\ allow_options /\ allow_options'
              /\ args' = Tail(args)
              /\ ~live'
        /\ (allow_options /\ args # <<>> /\ Head(args) = <<HYPHEN, EQUALS>>) =>
              arg'.tag = "Error"]_vars

\* C12 happens: `-=` was reported, and the call after it classified the `-a`
\* that followed.
C12_Witness ==
    /\ op = "next"
    /\ taken = << <<HYPHEN, EQUALS>>, <<HYPHEN, LOWER_A>> >>
    /\ arg = ArgNamed(<<LOWER_A>>, None)
    /\ allow_options

\* what the closure of a parse step returned: the error of its request if it
\* hands that on, what it returns of its own otherwise
HandlerReturn(h, o) ==
    IF o.tag \notin {"NotRequested", "Ok"} /\ h.onfail = "propagate" THEN o.tag
    ELSE h.then

\* C13: when the handler fails after Value::value gave it the value, parse
\* returns InvalidOption with the option's name, the handler's error and the
\* value obtained, inline or pulled; a pulled token is not put back.
C13_ErrorCarriesValue ==
    [][(op' = "parse" /\ got'.tag = "Ok" /\ HandlerReturn(handler', out') # "Ok") =>
        /\ result' = InvalidOption(arg.name, got'.val, HandlerReturn(handler', out'))
        /\ arg.data # None => got'.val = arg.data /\ args' = args
        /\ arg.data = None =>
              /\ got'.val = Some(Head(args))
              /\ args' = Tail(args)
              /\ taken'[Len(taken')] = Head(args)]_vars

\* C13 happens: `-a a` with a handler whose parser rejects the value: the
\* error names `a`, is InvalidValue and carries the pulled `a`.
C13_Witness ==
    /\ op = "parse"
    /\ handler.req = "as_str"
    /\ arg = ArgNamed(<<LOWER_A>>, None)
    /\ result = InvalidOption(<<LOWER_A>>, Some(<<LOWER_A>>), "InvalidValue")
    /\ Len(taken) = 2

\* C14: a handler that reports the option as unknown without requesting the
\* value: parse returns InvalidOption with err Unknown naming the option,
\* with or without an inline value, and no token is removed.
C14_Unknown ==
    [][(op' = "parse" /\ handler'.req = "none" /\ handler'.then = "Unknown") =>
        /\ result'.tag = "InvalidOption"
        /\ result'.err = "Unknown"
        /\ result'.name = arg.name
        /\ args' = args
        /\ got' = NotRequested
        /\ ~consumed']_vars

\* C14 happens: `--a=a` was reported unknown with a token waiting in the stream.
C14_Witness ==
    /\ op = "parse"
    /\ handler.req = "none"
    /\ arg.data = Some(<<LOWER_A>>)
    /\ result.err = "Unknown"
    /\ args # <<>>

\* C15: a NamedArgument dropped without parse does not go unnoticed: the
\* drop is impossible or leaves an error behind.
C15_DropNoticed ==
    op = "drop" => result.tag = "InvalidOption"

\* C16: as_osstr hands out whatever Value::value obtained; as_str fails with
\* InvalidUnicode iff that value is not valid UTF-8 and hands it out
\* otherwise; a handler that returns the InvalidUnicode failure makes parse
\* return InvalidOption with the option's name and the offending value, and
\* a pulled token stays removed.
C16_UnicodeOnRequest ==
    [][(op' = "parse" /\ got'.tag = "Ok") =>
        /\ handler'.req = "as_osstr" => out' = got'
        /\ handler'.req = "as_str" =>
              /\ (out' = GotErr("InvalidUnicode"))
                    <=> (\E i \in 1..Len(got'.val[1]) : got'.val[1][i] >= 128)
              /\ out'.tag # "InvalidUnicode" => out' = got'
        /\ (out'.tag = "InvalidUnicode" /\ handler'.onfail = "propagate") =>
              /\ result' = InvalidOption(arg.name, got'.val, "InvalidUnicode")
              /\ arg.data = None => args' = Tail(args) /\ got'.val = Some(Head(args))]_vars

\* C16 happens: `-a \xff` with a handler that asks for a str: the pulled
\* token is refused as InvalidUnicode and carried by the error.
C16_Witness ==
    /\ op = "parse"
    /\ handler.req = "as_str"
    /\ arg = ArgNamed(<<LOWER_A>>, None)
    /\ got = GotOk(<<BYTE_FF>>)
    /\ out = GotErr("InvalidUnicode")
    /\ result = InvalidOption(<<LOWER_A>>, Some(<<BYTE_FF>>), "InvalidUnicode")
    /\ Len(taken) = 2

\* C18: a token pulled as a value leaves the mode alone and raises no syntax
\* error: the pull changes neither allow_options nor the current Arg, the
\* result of parse is the handler's alone, and in the call of next after a
\* pulled `--` options are still enabled, so that `-a` is emitted as Named.
C18_PulledTokenInert ==
    [][/\ (RequestStep /\ arg.data = None /\ args # <<>>) =>
            /\ allow_options' = allow_options
            /\ arg'.tag = "Named"
            /\ result'.tag = "InvalidOption" =>
                  result'.err = HandlerReturn(handler', out')
            /\ HandlerReturn(handler', out') = "Ok" => result' = ResultOk
       /\ (op = "parse" /\ op' = "next" /\ arg.data = None /\ got = GotOk(DashDash)) =>
            /\ allow_options
            /\ (args # <<>> /\ Head(args) = <<HYPHEN, LOWER_A>>) =>
                  arg' = ArgNamed(<<LOWER_A>>, None) /\ allow_options']_vars

\* C18 happens: `-a -- -a`: the marker was pulled as the value of the first
\* `-a`, and the second `-a` was then emitted as Named.
C18_Witness ==
    /\ op = "next"
    /\ taken = << <<HYPHEN, LOWER_A>>, DashDash, <<HYPHEN, LOWER_A>> >>
    /\ arg = ArgNamed(<<LOWER_A>>, None)
    /\ allow_options

\* the token a Named event was classified from is one of these
SpellingsOf(n, d) ==
    LET body == n \o (IF d = None THEN <<>> ELSE <<EQUALS>> \o d[1])
    IN  {<<HYPHEN>> \o body, <<HYPHEN, HYPHEN>> \o body}

\* the token sequences an Arg returned by next can account for; `marker`
\* tells that the call swallowed the end-of-options marker
AccountedBy(a, marker) ==
    LET own == CASE a.tag \in {"Positional", "Error"} -> {<<a.arg[1]>>}
                 [] a.tag = "Named" -> {<<t>> : t \in SpellingsOf(a.name, a.data)}
                 [] OTHER -> {<<>>}
    IN  IF marker THEN {<<DashDash>> \o x : x \in own} ELSE own

\* C19: the tokens are conserved in order: what a call of next accounts for
\* (the token it emits, classifies or reports, after the marker if it
\* swallowed one), and the token a parse pulls, are exactly what left the
\* front of the stream; the tokens taken so far followed by the rest are the
\* input; a call of next removes at most two tokens, two only with the marker.
C19_Conservation ==
    [][/\ op' = "next" =>
            /\ \E acc \in AccountedBy(arg', allow_options /\ ~allow_options') :
                  acc \o args' = args
            /\ Len(args) - Len(args') <= 2
            /\ Len(args) - Len(args') = 2 => allow_options /\ Head(args) = DashDash
       /\ op' = "parse" =>
            (IF arg.data = None /\ got'.tag = "Ok" THEN <<got'.val[1]>> ELSE <<>>)
                \o args' = args
       /\ op' = "drop" => args' = args
       /\ SubSeq(input, 1, Len(input) - Len(args')) \o args' = input
       /\ taken' \o args' = input]_vars

\* C19 happens: one call of next took the marker and the token behind it,
\* after an option had pulled its value; all four tokens are accounted for.
C19_Witness ==
    /\ op = "next"
    /\ ~allow_options
    /\ Len(taken) = 3
    /\ taken[2] = DashDash
    /\ arg = ArgPositional(taken[3])
    /\ taken = input

----------------------------------------------------------------------------
(* Properties of the classifier *)

\* the classification of tok, once parse_arg has run
Classified == parsed # None

\* the name rule of ParsedArg::Named: non-empty, only letters, digits, hyphen
\* or underscore, no hyphen first or last
ValidName(n) ==
    /\ Len(n) > 0
    /\ \A i \in 1..Len(n) :
          \/ n[i] \in 97..122
          \/ n[i] \in 65..90
          \/ n[i] \in 48..57
          \/ n[i] = HYPHEN
          \/ n[i] = UNDERSCORE
    /\ n[1] # HYPHEN
    /\ n[Len(n)] # HYPHEN

\* a token that is neither positional nor the marker
OptionShaped(t) == Len(t) >= 2 /\ t[1] = HYPHEN /\ t # DashDash

\* what is left of an option-shaped token without its one or two leading hyphens
BodyOf(t) == IF t[2] = HYPHEN THEN SubSeq(t, 3, Len(t)) ELSE SubSeq(t, 2, Len(t))

\* the part of a body before its first `=`
NameOf(b) ==
    IF \E i \in 1..Len(b) : b[i] = EQUALS
    THEN SubSeq(b, 1, (CHOOSE i \in 1..Len(b) :
                          b[i] = EQUALS /\ \A j \in 1..(i - 1) : b[j] # EQUALS) - 1)
    ELSE b

\* C7: every Named result of parse_arg, for String and for OsString tokens,
\* has a name that is non-empty, made of ASCII letters, digits, hyphens and
\* underscores, and neither starts nor ends with a hyphen.
C7_NamedHasValidName ==
    (Classified /\ parsed[1].tag = "Named") => ValidName(parsed[1].name)

\* C8: every option-shaped token whose name is invalid fails classification,
\* and the failure returns the token, for String and for OsString tokens.
C8_InvalidNameFails ==
    (Classified /\ OptionShaped(tok) /\ ~ValidName(NameOf(BodyOf(tok))))
        => parsed[1] = Err(tok)

\* C9: a token that does not start with `-` or is shorter than 2 bytes is
\* classified Positional and carried unchanged, and no other token is
\* classified Positional.
C9_PositionalIffPlain ==
    Classified =>
        /\ (parsed[1].tag = "Positional") <=> (Len(tok) < 2 \/ tok[1] # HYPHEN)
        /\ parsed[1].tag = "Positional" => parsed[1].arg = Some(tok)

\* C9 happens: a lone `-` was classified Positional.
C9_Witness ==
    /\ Classified
    /\ tok = <<HYPHEN>>
    /\ parsed[1] = Positional(<<HYPHEN>>)

\* C10: for a valid name n and an optional value v, `-n` and `--n` (`-n=v`
\* and `--n=v`) are classified to the same Named(n, v).
C10_HyphensEquivalent ==
    (/\ Classified
     /\ prev # None
     /\ Len(prev[1].tok) >= 2
     /\ prev[1].tok[1] = HYPHEN
     /\ ValidName(NameOf(SubSeq(prev[1].tok, 2, Len(prev[1].tok)))))
        => /\ tok = <<HYPHEN>> \o prev[1].tok
           /\ parsed[1] = prev[1].parsed
           /\ parsed[1].tag = "Named"
           /\ parsed[1].name = NameOf(SubSeq(prev[1].tok, 2, Len(prev[1].tok)))
           /\ <<HYPHEN>> \o parsed[1].name
                \o (IF parsed[1].value = None THEN <<>>
                    ELSE <<EQUALS>> \o parsed[1].value[1]) = prev[1].tok

\* C10 happens: `-a_==` and `--a_==` were both classified, to Named("a_", "=").
C10_Witness ==
    /\ Classified
    /\ prev # None
    /\ prev[1].tok = <<HYPHEN, LOWER_A, UNDERSCORE, EQUALS, EQUALS>>
    /\ parsed[1] = Named(<<LOWER_A, UNDERSCORE>>, Some(<<EQUALS>>))

\* the part of a body after its first `=`, if it has one
ValueOf(b) ==
    IF \E i \in 1..Len(b) : b[i] = EQUALS
    THEN Some(SubSeq(b, Len(NameOf(b)) + 2, Len(b)))
    ELSE None

\* C17: the body of an option-shaped token is split at its first `=` only:
\* a Named result has the part before it as name and all that follows it as
\* value, further `=`, bytes no name may contain and bytes that are not
\* Unicode included; without `=` the name is the body and there is no value;
\* what the value holds never makes the classification fail.
C17_SplitAtFirstEquals ==
    (Classified /\ OptionShaped(tok)) =>
        /\ parsed[1].tag \in {"Named", "Err"}
        /\ parsed[1].tag = "Named" =>
              /\ parsed[1].name = NameOf(BodyOf(tok))
              /\ parsed[1].value = ValueOf(BodyOf(tok))
        /\ ValidName(NameOf(BodyOf(tok))) => parsed[1].tag = "Named"

\* C17 happens: `-a==\xff` was classified to the name `a` and the value `=\xff`.
C17_Witness ==
    /\ Classified
    /\ tok = <<HYPHEN, LOWER_A, EQUALS, EQUALS, BYTE_FF>>
    /\ parsed[1] = Named(<<LOWER_A>>, Some(<<EQUALS, BYTE_FF>>))

\* C20: on a token that is valid Unicode the String classifier and the
\* OsString classifier return the same result.
C20_ClassifiersAgree ==
    (Classified /\ \A i \in 1..Len(tok) : tok[i] < 128) =>
        /\ kind = "String" => parsed[1] = OsStringParseArg(tok)
        /\ kind = "OsString" => parsed[1] = StringParseArg(tok)

----------------------------------------------------------------------------
(* Properties of the errors, of the caller's loop and of parse.rs *)

\* C21: an InvalidOption error whose err is InvalidUnicode or InvalidValue
\* carries a value, whatever the handler did, so that Display can print it.
C21_ValuePresent ==
    (result.tag = "InvalidOption" /\ result.err \in {"InvalidUnicode", "InvalidValue"})
        => result.value # None /\ DisplayFmt(result) # "panic"

\* C22: no step adds a token to the stream, every call of next that emits
\* something other than End removes at least one, so that at most
\* Len(input) events come before End; and the loop does reach End and stays
\* there.
C22_Terminates ==
    /\ [][/\ Len(args') <= Len(args)
          /\ (op' = "next" /\ arg'.tag # "End") => Len(args') < Len(args)
          /\ Len(taken') = Len(input) - Len(args')]_vars
    /\ <>[](arg = ArgEnd /\ args = <<>> /\ ~live)

\* C22 happens: End was reached after three events on three tokens, none of
\* them the marker or a pulled value.
C22_Witness ==
    /\ op = "next"
    /\ arg = ArgEnd
    /\ allow_options
    /\ Len(input) = 3
    /\ \A i \in 1..3 : input[i] = <<LOWER_A>>
    /\ taken = input

\* C23: parse::parse_arg and the OsString implementation of
\* ArgString::parse_arg classify every token alike, and the one fails with
\* InvalidArgument carrying the token exactly when the other fails returning it.
C23_OldClassifierAgrees ==
    (Classified /\ prev # None) =>
        /\ prev[1].tok = tok
        /\ (parsed[1].tag = "Err") <=> (prev[1].parsed.tag = "InvalidArgument")
        /\ parsed[1].tag = "Err" =>
              parsed[1] = Err(tok) /\ prev[1].parsed = InvalidArgument(tok)
        /\ parsed[1].tag # "Err" => prev[1].parsed = parsed[1]

\* C23 happens: both classifiers refused `--a-` and returned it.
C23_Witness ==
    /\ Classified
    /\ prev # None
    /\ tok = <<HYPHEN, HYPHEN, LOWER_A, HYPHEN>>
    /\ parsed[1] = Err(tok)
    /\ prev[1].parsed = InvalidArgument(tok)

====
